---- MODULE Spec2Model ----
(***************************************************************************)
(* Model of the football-predictions application:                          *)
(*   - the Fetch Proxy route handler GET (api/predictions),                *)
(*   - the PredictionList client component (state, effect, fetch, render), *)
(*   - the pure display helpers calculateTimeRemaining, determineOutcome   *)
(*     and formatPercentage.                                               *)
(* Probabilities are carried as integer hundredths; timestamps are integer *)
(* milliseconds, as Date.getTime() returns them.                           *)
(***************************************************************************)
EXTENDS Integers, Sequences, FiniteSets, TLC

VARIABLES lifecycle, predictions, isLoading, error, lastUpdated,
          timerActive, reqs, now, lastDone, got500, arg, out

viewVars == <<lifecycle, predictions, isLoading, error, lastUpdated,
              timerActive, reqs, now, lastDone, got500>>
pureVars == <<arg, out>>
vars == <<lifecycle, predictions, isLoading, error, lastUpdated,
          timerActive, reqs, now, lastDone, got500, arg, out>>

\* ------------------------------------------------------------------ bounds
MaxFetches == 3
MaxTime == 1
MaxProb == 4
MaxMinutes == 125

\* ------------------------------------------------------------ null values
Null == "null"
NoDate == -1

\* ------------------------------------------------------------- payloads
\* A Prediction list is carried as the sequence of its matchIds.
Payloads == { <<>>, <<"m1">>, <<"m2", "m3">> }

\* Book-keeping of the requests: reqs[i] is the i-th fetchPredictions call.
\* A finished call keeps only what it delivered (a payload, or "fail").
NoOrigin == "-"
NoView == "-"
Finished(r) ==
    [origin |-> NoOrigin, phase |-> "done", upstream |-> "none", upstreamCalls |-> 0,
     response |-> IF r.rejected \/ ~(r.status >= 200 /\ r.status <= 299) \/ r.error # Null
                  THEN [rejected |-> FALSE, status |-> 0, isArray |-> FALSE,
                        data |-> <<>>, error |-> "fail"]
                  ELSE r,
     startView |-> NoView, startError |-> Null]

\* --------------------------------------------------------------- upstream
\* What the upstream prediction API can do with one request.
UpstreamOutcomes ==
    { [kind |-> "network", status |-> 0, parses |-> FALSE, isArray |-> FALSE,
       data |-> <<>>, error |-> Null] }
    \cup { [kind |-> "status", status |-> s, parses |-> FALSE, isArray |-> FALSE,
            data |-> <<>>, error |-> Null] : s \in {503} }
    \cup { [kind |-> "badbody", status |-> 200, parses |-> FALSE, isArray |-> FALSE,
            data |-> <<>>, error |-> Null] }
    \cup { [kind |-> "array", status |-> 200, parses |-> TRUE, isArray |-> TRUE,
            data |-> p, error |-> Null] : p \in Payloads }
    \cup { [kind |-> "object", status |-> 200, parses |-> TRUE, isArray |-> FALSE,
            data |-> <<>>, error |-> "quota exceeded"] }

\* Response.ok: status in the range 200-299.
Ok(status) == status >= 200 /\ status <= 299

UpstreamFailure(u) == u.kind = "network" \/ ~Ok(u.status) \/ ~u.parses

NoResponse == [rejected |-> FALSE, status |-> 0, isArray |-> FALSE,
               data |-> <<>>, error |-> Null]

\* NextResponse.json({ error: 'Failed to fetch predictions' }, { status: 500 })
ErrorResponse == [rejected |-> FALSE, status |-> 500, isArray |-> FALSE,
                  data |-> <<>>, error |-> "Failed to fetch predictions"]

\* The catch block of GET answering without the status option (status 200).
GETNoStatus(u) ==
    IF UpstreamFailure(u)
    THEN [calls |-> 1, response |-> [ErrorResponse EXCEPT !.status = 200]]
    ELSE [calls |-> 1,
          response |-> [rejected |-> FALSE, status |-> 200,
                        isArray |-> u.isArray, data |-> u.data, error |-> u.error]]

\* The route handler: one upstream fetch; any throw (network error, !ok,
\* json() failure) lands in the catch block and answers 500.
GET(u) ==
    IF u.kind = "network"
    THEN [calls |-> 1, response |-> ErrorResponse]
    ELSE IF ~Ok(u.status)
    THEN [calls |-> 1, response |-> ErrorResponse]
    ELSE IF ~u.parses
    THEN [calls |-> 1, response |-> ErrorResponse]
    ELSE [calls |-> 1,
          response |-> [rejected |-> FALSE, status |-> 200,
                        isArray |-> u.isArray, data |-> u.data, error |-> u.error]]

\* fetch('/api/predictions') itself rejecting (client cannot reach the proxy).
RejectedResponse == [rejected |-> TRUE, status |-> 0, isArray |-> FALSE,
                     data |-> <<>>, error |-> Null]

\* ------------------------------------------------------------------- view
ErrorMessage == "Failed to load predictions. Please try again later."

\* The branch of the component's render that is taken.
Render(lc, loading, err, preds) ==
    IF lc = "torn" THEN "unmounted"
    ELSE IF loading THEN "loading"
    ELSE IF err # Null THEN "error"
    ELSE IF Len(preds) = 0 THEN "empty"
    ELSE "list"

View == Render(lifecycle, isLoading, error, predictions)

InFlight == { i \in 1..Len(reqs) : reqs[i].phase # "done" }

\* The try block of fetchPredictions throws on this response.
Throws(r) == r.rejected \/ ~Ok(r.status) \/ r.error # Null

NewRequest(origin) ==
    [origin |-> origin, phase |-> "sent", upstream |-> "none", upstreamCalls |-> 0,
     response |-> NoResponse, startView |-> View, startError |-> error]

\* fetchPredictions up to its first await: setIsLoading(true), request sent.
\* A state update on a torn-down component is dropped.
FetchStart(origin, lc) ==
    /\ Len(reqs) < MaxFetches
    /\ reqs' = Append(reqs, NewRequest(origin))
    /\ isLoading' = IF lc = "mounted" THEN TRUE ELSE isLoading

ViewInit ==
    /\ lifecycle = "init"
    /\ predictions = <<>>
    /\ isLoading = TRUE
    /\ error = Null
    /\ lastUpdated = NoDate
    /\ timerActive = FALSE
    /\ reqs = <<>>
    /\ now = 0
    /\ lastDone = [id |-> 0, time |-> NoDate]
    /\ got500 = FALSE

PureIdle ==
    /\ arg = [fn |-> "none"]
    /\ out = ""

\* useEffect(..., []): first fetch and setInterval.
Mount ==
    /\ lifecycle = "init"
    /\ lifecycle' = "mounted"
    /\ FetchStart("mount", "mounted")
    /\ timerActive' = TRUE
    /\ UNCHANGED <<predictions, error, lastUpdated, now, lastDone, got500>>

\* The setInterval callback.
TimerFire ==
    /\ timerActive
    /\ FetchStart("timer", lifecycle)
    /\ UNCHANGED <<lifecycle, predictions, error, lastUpdated, timerActive, now, lastDone, got500>>

\* onClick of the "Try Again" button, rendered only in the error branch.
RetryClick ==
    /\ lifecycle = "mounted"
    /\ View = "error"
    /\ FetchStart("retry", lifecycle)
    /\ UNCHANGED <<lifecycle, predictions, error, lastUpdated, timerActive, now, lastDone, got500>>

\* Effect cleanup without clearInterval.
UnmountKeepTimer ==
    /\ lifecycle = "mounted"
    /\ lifecycle' = "torn"
    /\ UNCHANGED <<timerActive, predictions, isLoading, error, lastUpdated, reqs, now, lastDone, got500>>

\* Effect cleanup: clearInterval(updateInterval).
Unmount ==
    /\ lifecycle = "mounted"
    /\ lifecycle' = "torn"
    /\ timerActive' = FALSE
    /\ UNCHANGED <<predictions, isLoading, error, lastUpdated, reqs, now, lastDone, got500>>

\* The proxy handles request i.
ProxyGET(i) ==
    /\ reqs[i].phase = "sent"
    /\ \E u \in UpstreamOutcomes :
          reqs' = [reqs EXCEPT ![i] =
                     [@ EXCEPT !.phase = "responded",
                               !.upstream = u.kind,
                               !.upstreamCalls = @ + GET(u).calls,
                               !.response = GET(u).response]]
    /\ UNCHANGED <<lifecycle, predictions, isLoading, error, lastUpdated,
                   timerActive, now, lastDone, got500>>

\* The client's fetch to the proxy rejects.
ClientNetFail(i) ==
    /\ reqs[i].phase = "sent"
    /\ reqs' = [reqs EXCEPT ![i] =
                  [@ EXCEPT !.phase = "responded", !.response = RejectedResponse]]
    /\ UNCHANGED <<lifecycle, predictions, isLoading, error, lastUpdated,
                   timerActive, now, lastDone, got500>>

\* The state the component holds after the rest of fetchPredictions has run
\* on response r: <<predictions, lastUpdated, error, isLoading>>.
\* Variant with a request-id check: only the latest started request applies.
SettleLatestOnly(i, r) ==
    IF i # Len(reqs) THEN <<predictions, lastUpdated, error, isLoading>>
    ELSE IF Throws(r) THEN <<predictions, lastUpdated, ErrorMessage, FALSE>>
    ELSE <<r.data, now, error, FALSE>>

\* try { ...setPredictions(data); setLastUpdated(new Date()) }
\* catch { setError(...) } finally { setIsLoading(false) }
Settle(i, r) ==
    IF Throws(r) THEN <<predictions, lastUpdated, ErrorMessage, FALSE>>
    ELSE <<r.data, now, error, FALSE>>

\* fetchPredictions after its awaits, for request i.
Complete(i) ==
    /\ reqs[i].phase = "responded"
    /\ reqs' = [reqs EXCEPT ![i] = Finished(reqs[i].response)]
    /\ lastDone' = [id |-> i, time |-> now]
    /\ got500' = (got500 \/ (lifecycle = "mounted" /\ reqs[i].response.status = 500))
    /\ IF lifecycle = "mounted"
       THEN /\ predictions' = Settle(i, reqs[i].response)[1]
            /\ lastUpdated' = Settle(i, reqs[i].response)[2]
            /\ error' = Settle(i, reqs[i].response)[3]
            /\ isLoading' = Settle(i, reqs[i].response)[4]
       ELSE UNCHANGED <<predictions, lastUpdated, error, isLoading>>
    /\ UNCHANGED <<lifecycle, timerActive, now>>

\* The wall clock advances.
Tick ==
    /\ now < MaxTime
    /\ now' = now + 1
    /\ UNCHANGED <<lifecycle, predictions, isLoading, error, lastUpdated,
                   timerActive, reqs, lastDone, got500>>

Init == ViewInit /\ PureIdle

Next ==
    \/ (Mount /\ UNCHANGED pureVars)
    \/ (TimerFire /\ UNCHANGED pureVars)
    \/ (RetryClick /\ UNCHANGED pureVars)
    \/ (Unmount /\ UNCHANGED pureVars)
    \/ (\E i \in 1..Len(reqs) : ProxyGET(i) /\ UNCHANGED pureVars)
    \/ (\E i \in 1..Len(reqs) : ClientNetFail(i) /\ UNCHANGED pureVars)
    \/ (\E i \in 1..Len(reqs) : Complete(i) /\ UNCHANGED pureVars)
    \/ (Tick /\ UNCHANGED pureVars)

Spec == Init /\ [][Next]_vars

\* ---------------------------------------------------------- pure helpers
Digit(d) ==
    CASE d = 0 -> "0" [] d = 1 -> "1" [] d = 2 -> "2" [] d = 3 -> "3"
      [] d = 4 -> "4" [] d = 5 -> "5" [] d = 6 -> "6" [] d = 7 -> "7"
      [] d = 8 -> "8" [] d = 9 -> "9"

RECURSIVE Decimal(_)
Decimal(n) == IF n < 10 THEN Digit(n) ELSE Decimal(n \div 10) \o Digit(n % 10)

\* Number-to-string conversion of a template literal, for an integer.
ToStr(n) == IF n < 0 THEN "-" \o Decimal(0 - n) ELSE Decimal(n)

\* JavaScript %: the remainder takes the sign of the dividend.
JsRem(a, b) == IF a >= 0 THEN a % b ELSE 0 - ((0 - a) % b)

\* Number.prototype.toFixed(0) of the non-negative rational num/den:
\* the nearest integer, the larger one on a tie.
ToFixed0(num, den) == (2 * num + den) \div (2 * den)

Max3(a, b, c) ==
    IF a >= b /\ a >= c THEN a ELSE IF b >= c THEN b ELSE c

\* Variant testing timeDiff <= 0.
calculateTimeRemainingLE(matchTime, nowMs) ==
    LET timeDiff == matchTime - nowMs
        hours == timeDiff \div (1000 * 60 * 60)
        minutes == JsRem(timeDiff, 1000 * 60 * 60) \div (1000 * 60)
    IN  IF timeDiff <= 0 THEN "Match ended"
        ELSE IF hours > 0 THEN ToStr(hours) \o "h " \o ToStr(minutes) \o "m"
        ELSE ToStr(minutes) \o "m"

calculateTimeRemaining(matchTime, nowMs) ==
    LET timeDiff == matchTime - nowMs
        hours == timeDiff \div (1000 * 60 * 60)
        minutes == JsRem(timeDiff, 1000 * 60 * 60) \div (1000 * 60)
    IN  IF timeDiff < 0 THEN "Match ended"
        ELSE IF hours > 0 THEN ToStr(hours) \o "h " \o ToStr(minutes) \o "m"
        ELSE ToStr(minutes) \o "m"

\* Variant checking the draw before the away win.
determineOutcomeDrawFirst(match) ==
    LET maxProb == Max3(match.probHomeWin, match.probDraw, match.probAwayWin)
    IN  IF maxProb = match.probHomeWin THEN match.homeTeamName \o " likely to win"
        ELSE IF maxProb = match.probDraw THEN "Draw likely"
        ELSE match.awayTeamName \o " likely to win"

determineOutcome(match) ==
    LET maxProb == Max3(match.probHomeWin, match.probDraw, match.probAwayWin)
    IN  IF maxProb = match.probHomeWin THEN match.homeTeamName \o " likely to win"
        ELSE IF maxProb = match.probAwayWin THEN match.awayTeamName \o " likely to win"
        ELSE "Draw likely"

\* value is in hundredths: `${(value * 1).toFixed(0)}%`.
formatPercentage(value) == ToStr(ToFixed0(value * 1, 100)) \o "%"

\* Inputs of the helpers.
Hundredths == 0..100
Probs == 0..MaxProb
Diffs == { k * 60000 + r : k \in (0 - MaxMinutes)..MaxMinutes, r \in {0, 1, 59999} }
ClockSamples == {0, 86400000}

PureInputs ==
    { [fn |-> "formatPercentage", value |-> h] : h \in Hundredths }
    \cup { [fn |-> "determineOutcome", probHomeWin |-> h, probDraw |-> d, probAwayWin |-> a,
            homeTeamName |-> "Arsenal", awayTeamName |-> "Chelsea"]
           : h \in Probs, d \in Probs, a \in Probs }
    \cup { [fn |-> "calculateTimeRemaining", matchTime |-> n + d, nowMs |-> n]
           : d \in Diffs, n \in ClockSamples }

PureInit ==
    /\ ViewInit
    /\ arg \in PureInputs
    /\ out = ""

ApplyFormatPercentage ==
    /\ out = ""
    /\ arg.fn = "formatPercentage"
    /\ out' = formatPercentage(arg.value)
    /\ UNCHANGED arg

ApplyDetermineOutcome ==
    /\ out = ""
    /\ arg.fn = "determineOutcome"
    /\ out' = determineOutcome(arg)
    /\ UNCHANGED arg

ApplyCalculateTimeRemaining ==
    /\ out = ""
    /\ arg.fn = "calculateTimeRemaining"
    /\ out' = calculateTimeRemaining(arg.matchTime, arg.nowMs)
    /\ UNCHANGED arg

NextPure ==
    \/ (ApplyFormatPercentage /\ UNCHANGED viewVars)
    \/ (ApplyDetermineOutcome /\ UNCHANGED viewVars)
    \/ (ApplyCalculateTimeRemaining /\ UNCHANGED viewVars)

SpecPure == PureInit /\ [][NextPure]_vars

Applied(f) == arg.fn = f /\ out # ""

\* ------------------------------------------------------------ properties
Loaded == {"empty", "list"}

\* Request i is completed by this step in a mounted view.
Completes(i) ==
    /\ lifecycle = "mounted"
    /\ reqs[i].phase = "responded"
    /\ reqs'[i].phase = "done"

\* C1: a retry started from the error state whose fetch succeeds leaves the
\* view, once it completes with no other fetch in flight, in the loaded state
\* (list or empty-list message) and no longer in the error state.
C1_RetrySuccessLoaded ==
    [][\A i \in 1..Len(reqs) :
          (/\ Completes(i)
           /\ reqs[i].origin = "retry"
           /\ reqs[i].startView = "error"
           /\ ~Throws(reqs[i].response)
           /\ InFlight' = {})
          => View' \in Loaded]_vars

\* C2: on every upstream failure (non-success status, network error,
\* unparseable body) the proxy has made exactly one upstream request and answers
\* 500 with an error field; a mounted view that received such an answer shows
\* the error state (with its retry button) whenever no fetch is in flight.
C2_UpstreamFailure ==
    /\ \A i \in 1..Len(reqs) :
          (reqs[i].phase = "responded" /\ reqs[i].upstream \in {"network", "status", "badbody"})
          => /\ reqs[i].upstreamCalls = 1
             /\ reqs[i].response.status = 500
             /\ reqs[i].response.error # Null
    /\ (lifecycle = "mounted" /\ got500 /\ InFlight = {}) => View = "error"

C2_Witness ==
    /\ lifecycle = "mounted"
    /\ got500
    /\ InFlight = {}
    /\ View = "error"
    /\ Len(reqs) >= 2

\* C3: for every p in hundredths from 0.00 to 1.00, formatPercentage(p) is the
\* decimal string of round(100 * p) followed by "%".
C3_FormatPercentage ==
    Applied("formatPercentage") => out = ToStr(arg.value) \o "%"

\* C4: a refetch started on a loaded view that succeeds puts the view into
\* loading at its start, and at its completion returns it to the loaded state
\* with the list replaced by the new payload and the last-updated timestamp set
\* to the completion time, not earlier than its previous value.
C4_RefetchLoaded ==
    [][/\ (Len(reqs') > Len(reqs) /\ View \in Loaded) => View' = "loading"
       /\ \A i \in 1..Len(reqs) :
            (/\ Completes(i)
             /\ reqs[i].startView \in Loaded
             /\ ~Throws(reqs[i].response))
            => /\ View' \in Loaded
               /\ predictions' = reqs[i].response.data
               /\ lastUpdated' = now
               /\ lastUpdated' >= lastUpdated]_vars

\* C5: a fetch answered 200 with an empty array never sets the error message;
\* if the error message was null when the fetch was started, then after it
\* completes with no other fetch in flight the view shows the empty-list
\* message and not the error state.
C5_EmptyIsSuccess ==
    [][\A i \in 1..Len(reqs) :
          (/\ Completes(i)
           /\ reqs[i].response.status = 200
           /\ reqs[i].response.isArray
           /\ reqs[i].response.data = <<>>)
          => /\ error' = error
             /\ (reqs[i].startError = Null /\ InFlight' = {}) => View' = "empty"]_vars

\* C6: determineOutcome returns the outcome with the strictly largest
\* probability; on ties for the maximum the precedence is home, then away,
\* then draw.
C6_DetermineOutcome ==
    Applied("determineOutcome") =>
        LET h == arg.probHomeWin
            d == arg.probDraw
            a == arg.probAwayWin
            homeWins == arg.homeTeamName \o " likely to win"
            awayWins == arg.awayTeamName \o " likely to win"
        IN  /\ (h > d /\ h > a) => out = homeWins
            /\ (a > h /\ a > d) => out = awayWins
            /\ (d > h /\ d > a) => out = "Draw likely"
            /\ (h >= d /\ h >= a) => out = homeWins
            /\ (a > h /\ a >= d) => out = awayWins
            /\ out \in {homeWins, awayWins, "Draw likely"}

C6_Witness ==
    /\ Applied("determineOutcome")
    /\ arg.probAwayWin = arg.probDraw
    /\ arg.probAwayWin > arg.probHomeWin
    /\ out = "Chelsea likely to win"

\* C7: with d = kickoff - now in milliseconds, calculateTimeRemaining returns
\* "Match ended" when d < 0; otherwise "Hh Mm" when H > 0 and "Mm" when H = 0,
\* where H whole hours and M whole minutes (0 <= M <= 59) fit into d; so 90
\* minutes give "1h 30m", 45 minutes "45m" and d = 0 gives "0m".
C7_TimeRemaining ==
    Applied("calculateTimeRemaining") =>
        LET d == arg.matchTime - arg.nowMs
        IN  /\ d < 0 => out = "Match ended"
            /\ d >= 0 =>
                 \E H \in 0..(MaxMinutes \div 60 + 1), M \in 0..59 :
                    /\ H * 3600000 + M * 60000 <= d
                    /\ d < H * 3600000 + (M + 1) * 60000
                    /\ out = IF H > 0 THEN ToStr(H) \o "h " \o ToStr(M) \o "m"
                             ELSE ToStr(M) \o "m"
            /\ d = 90 * 60000 => out = "1h 30m"
            /\ d = 45 * 60000 => out = "45m"
            /\ d = 0 => out = "0m"

C7_Witness ==
    /\ Applied("calculateTimeRemaining")
    /\ arg.matchTime - arg.nowMs = 90 * 60000
    /\ arg.nowMs > 0
    /\ out = "1h 30m"

\* C8: in every state of a mounted view with a started and not yet completed
\* fetchPredictions call, isLoading is true and the loading screen is rendered.
C8_LoadingWhileInFlight ==
    (lifecycle = "mounted" /\ InFlight # {}) => (isLoading /\ View = "loading")

\* C9: a fetch is started only by the mount, by a timer fire while mounted or
\* by a click on the retry button of the error state; the timer is not active
\* after teardown, so no fetch is started on a torn-down view; a timer fire
\* while mounted starts a fetch and sets loading whatever the view showed.
C9_FetchSources ==
    /\ [](timerActive => lifecycle = "mounted")
    /\ [][Len(reqs') > Len(reqs) =>
            LET r == reqs'[Len(reqs')]
            IN  /\ Len(reqs') = Len(reqs) + 1
                /\ lifecycle' = "mounted"
                /\ r.origin \in {"mount", "timer", "retry"}
                /\ r.origin = "mount" => lifecycle = "init"
                /\ r.origin = "retry" => (lifecycle = "mounted" /\ View = "error")
                /\ r.origin = "timer" =>
                      (lifecycle = "mounted" /\ timerActive /\ isLoading' /\ View' = "loading")]_vars

C9_Witness ==
    /\ Len(reqs) >= 2
    /\ reqs[Len(reqs)].origin = "timer"
    /\ reqs[Len(reqs)].phase = "sent"
    /\ reqs[Len(reqs)].startView = "list"
    /\ View = "loading"

\* C10: after two overlapping fetches have both succeeded, the list and the
\* last-updated timestamp of the view are those of the fetch that completed
\* last, also when that fetch was started first.
C10_LastCompletedWins ==
    (/\ lifecycle = "mounted"
     /\ lastDone.id # 0
     /\ reqs[lastDone.id].response.error = Null)
    => /\ predictions = reqs[lastDone.id].response.data
       /\ lastUpdated = lastDone.time

C10_Witness ==
    /\ lifecycle = "mounted"
    /\ InFlight = {}
    /\ \E i \in 1..Len(reqs), j \in 1..Len(reqs) :
          /\ i < j
          /\ lastDone.id = i
          /\ reqs[i].response.error = Null
          /\ reqs[j].response.error = Null
          /\ reqs[i].response.data # reqs[j].response.data
          /\ predictions = reqs[i].response.data
          /\ lastUpdated = lastDone.time

====
